---- MODULE Spec2Model ----
(***************************************************************************)
(* A model of the UPI wallet simulator (src/app.py): the three tables     *)
(* (user, wallet, transaction), the signed-cookie session of each         *)
(* browser, and the register / login / logout / transfer / dashboard /    *)
(* history handlers.  now is the reading of the server's clock.           *)
(*                                                                         *)
(* Strings the handlers compute with (emails, payment identifiers, form   *)
(* values) are sequences of one-character strings, so that strip(),       *)
(* lower(), split('@') and the f-string concatenations are computed.      *)
(*                                                                         *)
(* Wallet balances and amounts are Python floats (db.Float).  A float is  *)
(* a record [k, u, t]: k is "fin", "nan", "inf" or "ninf"; a finite value *)
(* is u/8 + t * 1e-300.  Every finite value the model reaches is a        *)
(* multiple of 1/8 below 2^50 or a small multiple of 1e-300, so IEEE-754  *)
(* double arithmetic on these values is exactly what FAdd/FSub compute:   *)
(* sums of multiples of 1/8 are exact, and a multiple of 1e-300 added to  *)
(* a non-zero multiple of 1/8 is rounded away.                            *)
(***************************************************************************)
EXTENDS Integers, Sequences, FiniteSets, TLC

VARIABLES users, wallets, txns, sess, resp, req, now

vars == <<users, wallets, txns, sess, resp, req, now>>

\* The persisted state: the three tables.
db == <<users, wallets, txns>>

\* ------------------------------------------------------------------ bounds
\* The ledger holds at most MaxTxns rows: transfers that would commit one
\* more are not issued.
MaxTxns == 2

\* Wallet(..., balance=1000.0) at registration.
InitialBalance == 1000

\* ------------------------------------------------------------ float values
Fin(u, t) == [k |-> "fin", u |-> u, t |-> t]
NaN == [k |-> "nan", u |-> 0, t |-> 0]
PosInf == [k |-> "inf", u |-> 0, t |-> 0]
NegInf == [k |-> "ninf", u |-> 0, t |-> 0]

\* The float of a whole number n.
Num(n) == Fin(8 * n, 0)

IsFinite(x) == x.k = "fin"

FNeg(x) ==
  CASE x.k = "fin" -> Fin(0 - x.u, 0 - x.t)
    [] x.k = "inf" -> NegInf
    [] x.k = "ninf" -> PosInf
    [] OTHER -> NaN

\* x + y in double arithmetic.
FAdd(x, y) ==
  IF x.k = "nan" \/ y.k = "nan" THEN NaN
  ELSE IF x.k = "inf" THEN (IF y.k = "ninf" THEN NaN ELSE PosInf)
  ELSE IF x.k = "ninf" THEN (IF y.k = "inf" THEN NaN ELSE NegInf)
  ELSE IF y.k # "fin" THEN y
  ELSE IF x.u + y.u # 0 THEN Fin(x.u + y.u, 0)
  ELSE Fin(0, x.t + y.t)

\* x - y in double arithmetic.
FSub(x, y) == FAdd(x, FNeg(y))

\* x < y as Python compares floats: every comparison with nan is False.
FLt(x, y) ==
  IF x.k = "nan" \/ y.k = "nan" THEN FALSE
  ELSE IF x.k = "inf" \/ y.k = "ninf" THEN FALSE
  ELSE IF x.k = "ninf" \/ y.k = "inf" THEN TRUE
  ELSE x.u < y.u \/ (x.u = y.u /\ x.t < y.t)

\* x <= y as Python compares floats.
FLe(x, y) ==
  IF x.k = "nan" \/ y.k = "nan" THEN FALSE
  ELSE x = y \/ FLt(x, y)

\* ----------------------------------------------------------------- strings
Empty == <<>>

WhiteSpace == {" "}

LowerChar(ch) ==
  CASE ch = "A" -> "a"
    [] ch = "X" -> "x"
    [] ch = "M" -> "m"
    [] ch = "O" -> "o"
    [] ch = "C" -> "c"
    [] ch = "K" -> "k"
    [] ch = "U" -> "u"
    [] ch = "P" -> "p"
    [] ch = "I" -> "i"
    [] OTHER -> ch

\* str.lower()
Lower(s) == [i \in 1..Len(s) |-> LowerChar(s[i])]

RECURSIVE LStrip(_)
LStrip(s) ==
  IF s # Empty /\ Head(s) \in WhiteSpace THEN LStrip(Tail(s)) ELSE s

RECURSIVE RStrip(_)
RStrip(s) ==
  IF s # Empty /\ s[Len(s)] \in WhiteSpace
  THEN RStrip(SubSeq(s, 1, Len(s) - 1))
  ELSE s

\* str.strip()
Strip(s) == RStrip(LStrip(s))

\* s.split('@')[0]: the part of s before its first '@', all of s without one.
RECURSIVE LocalPart(_)
LocalPart(s) ==
  IF s = Empty \/ Head(s) = "@" THEN Empty
  ELSE <<Head(s)>> \o LocalPart(Tail(s))

DigitChar(d) ==
  CASE d = 0 -> "0" [] d = 1 -> "1" [] d = 2 -> "2" [] d = 3 -> "3"
    [] d = 4 -> "4" [] d = 5 -> "5" [] d = 6 -> "6" [] d = 7 -> "7"
    [] d = 8 -> "8" [] d = 9 -> "9"

\* The decimal digits of a counter, as f"{counter}" prints it.
RECURSIVE Digits(_)
Digits(n) ==
  IF n < 10 THEN <<DigitChar(n)>>
  ELSE Digits(n \div 10) \o <<DigitChar(n % 10)>>

MockUpi == <<"@", "m", "o", "c", "k", "u", "p", "i">>

\* UpiCandidate with the counter printed one too high.
UpiCandidateMutant(base, k) ==
  IF k = 0 THEN base \o MockUpi ELSE base \o Digits(k + 1) \o MockUpi

\* f"{upi_id_base}@mockupi" (k = 0) and f"{upi_id_base}{counter}@mockupi".
UpiCandidate(base, k) ==
  IF k = 0 THEN base \o MockUpi ELSE base \o Digits(k) \o MockUpi

\* ------------------------------------------------------------------ inputs
Clients == {"c1", "c2"}

\* The browser whose requests are handled one at a time.
Browsers == {"c1"}

\* The form values a browser submits.
Names == {Empty, <<"n">>}

Emails ==
  { Empty,
    <<"a", "@", "x">>,
    <<" ", "A", "@", "X">>,
    <<"a", "@", "y">> }

\* Passwords chosen at registration, and passwords tried at login.
Passwords == {Empty, <<"p">>}

LoginPasswords == {<<"p">>, <<"q">>}

Recipients ==
  { Empty,
    <<"a">> \o MockUpi,
    <<"A">> \o MockUpi \o <<" ">>,
    <<"a", "1">> \o MockUpi,
    <<"z">> \o MockUpi }

AmountStrs ==
  { Empty,
    <<"a", "b", "c">>,
    <<"0">>,
    <<"-", "5">>,
    <<"n", "a", "n">>,
    <<"i", "n", "f">>,
    <<"-", "i", "n", "f">>,
    <<"i", "n", "f", "i", "n", "i", "t", "y">>,
    <<"0", ".", "1", "2", "5">>,
    <<"1", "e", "-", "3", "0", "0">>,
    <<" ", "1", "5", "0">>,
    <<"2", "0", "0", "0">> }

\* float(amount_str) on the amounts above: <<x>> for the float it returns,
\* <<>> where it raises ValueError.
ParseFloat(s) ==
  LET z == Strip(s) IN
  CASE z = <<"0">> -> <<Num(0)>>
    [] z = <<"-", "5">> -> <<Num(-5)>>
    [] z = <<"n", "a", "n">> -> <<NaN>>
    [] z = <<"i", "n", "f">> -> <<PosInf>>
    [] z = <<"-", "i", "n", "f">> -> <<NegInf>>
    [] z = <<"i", "n", "f", "i", "n", "i", "t", "y">> -> <<PosInf>>
    [] z = <<"0", ".", "1", "2", "5">> -> <<Fin(1, 0)>>
    [] z = <<"1", "e", "-", "3", "0", "0">> -> <<Fin(0, 1)>>
    [] z = <<"1", "5", "0">> -> <<Num(150)>>
    [] z = <<"2", "0", "0", "0">> -> <<Num(2000)>>
    [] OTHER -> <<>>

\* ------------------------------------------------------------ the database
\* generate_password_hash / check_password_hash: a one-way salted hash.
GeneratePasswordHash(p) == [pbkdf2 |-> p]

CheckPasswordHash(h, p) == h = GeneratePasswordHash(p)

\* Query.first(): <<row>> for the first match, <<>> for None.
First(rows) == IF rows = <<>> THEN <<>> ELSE <<Head(rows)>>

UserByEmail(us, email) ==
  LET Match(u) == u.email = email IN First(SelectSeq(us, Match))

UserByUpi(us, upi) ==
  LET Match(u) == u.upi_id = upi IN First(SelectSeq(us, Match))

\* User.query.get(id)
UserGet(us, id) ==
  LET Match(u) == u.id = id IN First(SelectSeq(us, Match))

WalletByUser(ws, uid) ==
  LET Match(w) == w.user_id = uid IN First(SelectSeq(ws, Match))

\* The user table without its unique constraints.
UserInsertAllowedMutant(us, u) == TRUE

\* The unique constraints of the user table (email, upi_id): whether the
\* INSERT of row u is accepted.
UserInsertAllowed(us, u) ==
  /\ UserByEmail(us, u.email) = <<>>
  /\ UserByUpi(us, u.upi_id) = <<>>

\* The unique constraint of wallet.user_id.
WalletInsertAllowed(ws, uid) == WalletByUser(ws, uid) = <<>>

\* INSERT with an autoincremented primary key.
InsertUser(us, u) ==
  Append(us, [id |-> Len(us) + 1, name |-> u.name, email |-> u.email,
              password |-> u.password, upi_id |-> u.upi_id])

InsertWallet(ws, uid, balance) ==
  Append(ws, [id |-> Len(ws) + 1, user_id |-> uid, balance |-> balance])

\* The timestamp column defaults to datetime.utcnow at the INSERT.
InsertTxn(ts, t) ==
  Append(ts, [id |-> Len(ts) + 1, sender_upi |-> t.sender_upi,
              receiver_upi |-> t.receiver_upi, amount |-> t.amount,
              timestamp |-> now])

\* UPDATE wallet SET balance = b WHERE id = wid
UpdateBalance(ws, wid, b) ==
  [i \in 1..Len(ws) |->
    IF ws[i].id = wid THEN [ws[i] EXCEPT !.balance = b] ELSE ws[i]]

\* ---------------------------------------------------------------- responses
\* rows: the ledger rows a rendered page lists.
Response(status, flash, to) ==
  [status |-> status, flash |-> flash, to |-> to, rows |-> <<>>]

NoResponse == Response(0, "", "")

\* An exception no handler catches: Flask answers 500.
ServerError == Response(500, "", "")

Redirect(flash, to) == Response(302, flash, to)

Render(flash, page) == Response(200, flash, page)

\* ------------------------------------------------------------- registration
\* register(), up to the email check: <<response>> when the handler
\* returns there, <<>> when it goes on.
RegisterEarly(us, uid, nameRaw, emailRaw, password) ==
  LET name == Strip(nameRaw)
      email == Lower(Strip(emailRaw))
  IN  IF uid # 0 THEN <<Redirect("", "dashboard")>>
      ELSE IF name = Empty \/ email = Empty \/ password = Empty
        THEN <<Redirect("All fields are required.", "register")>>
      ELSE IF UserByEmail(us, email) # <<>>
        THEN <<Redirect("Email already registered.", "register")>>
      ELSE <<>>

\* The while loop of register(): the first candidate no user holds.
RECURSIVE UniqueUpi(_, _, _, _)
UniqueUpi(us, base, candidate, counter) ==
  IF UserByUpi(us, candidate) # <<>>
  THEN UniqueUpi(us, base, UpiCandidate(base, counter), counter + 1)
  ELSE candidate

\* User(name=..., email=..., password=hashed_password, upi_id=...)
NewUser(nameRaw, emailRaw, password, upi) ==
  [name |-> Strip(nameRaw), email |-> Lower(Strip(emailRaw)),
   password |-> GeneratePasswordHash(password), upi_id |-> upi]

\* db.session.add(user); db.session.commit(): the row is inserted unless the
\* commit fails (ok = FALSE) or a unique constraint refuses it.
CommitUser(us, u, ok) ==
  IF ok /\ UserInsertAllowed(us, u) THEN InsertUser(us, u) ELSE us

\* db.session.add(wallet); db.session.commit()
CommitWallet(ws, uid, ok) ==
  IF ok /\ WalletInsertAllowed(ws, uid)
  THEN InsertWallet(ws, uid, Num(InitialBalance))
  ELSE ws

RegisteredResponse == Redirect("Registration successful! Please log in.", "login")

\* The whole POST /register handler, run without interruption.
register(us, ws, uid, nameRaw, emailRaw, password, ok1, ok2) ==
  LET early == RegisterEarly(us, uid, nameRaw, emailRaw, password)
      base == LocalPart(Lower(Strip(emailRaw)))
      upi == UniqueUpi(us, base, UpiCandidate(base, 0), 1)
      us1 == CommitUser(us, NewUser(nameRaw, emailRaw, password, upi), ok1)
      ws1 == CommitWallet(ws, Len(us1), ok2)
  IN  IF early # <<>> THEN [users |-> us, wallets |-> ws, resp |-> early[1]]
      ELSE IF us1 = us THEN [users |-> us, wallets |-> ws, resp |-> ServerError]
      ELSE IF ws1 = ws THEN [users |-> us1, wallets |-> ws, resp |-> ServerError]
      ELSE [users |-> us1, wallets |-> ws1, resp |-> RegisteredResponse]

\* ------------------------------------------------------------ login, logout
\* POST /login: the session's user id afterwards, and the response.
InvalidLogin == Render("Invalid email or password. Please try again.", "login")

\* login with the hash comparison left out.
LoginUnverifiedMutant(us, uid, emailRaw, password) ==
  LET user == UserByEmail(us, Lower(Strip(emailRaw)))
  IN  IF uid # 0 THEN [uid |-> uid, resp |-> Redirect("", "dashboard")]
      ELSE IF user # <<>>
        THEN [uid |-> user[1].id, resp |-> Redirect("Welcome back", "dashboard")]
      ELSE [uid |-> 0, resp |-> InvalidLogin]

\* login with a message of its own for an unknown email.
LoginRevealingMutant(us, uid, emailRaw, password) ==
  LET user == UserByEmail(us, Lower(Strip(emailRaw)))
  IN  IF uid # 0 THEN [uid |-> uid, resp |-> Redirect("", "dashboard")]
      ELSE IF user = <<>>
        THEN [uid |-> 0, resp |-> Render("No account with this email.", "login")]
      ELSE IF CheckPasswordHash(user[1].password, password)
        THEN [uid |-> user[1].id, resp |-> Redirect("Welcome back", "dashboard")]
      ELSE [uid |-> 0, resp |-> InvalidLogin]

login(us, uid, emailRaw, password) ==
  LET user == UserByEmail(us, Lower(Strip(emailRaw)))
  IN  IF uid # 0 THEN [uid |-> uid, resp |-> Redirect("", "dashboard")]
      ELSE IF user # <<>> /\ CheckPasswordHash(user[1].password, password)
        THEN [uid |-> user[1].id, resp |-> Redirect("Welcome back", "dashboard")]
      ELSE [uid |-> 0, resp |-> InvalidLogin]

LoggedOutResponse == Redirect("You have been successfully logged out.", "index")

\* ----------------------------------------------------------------- transfer
NeedLogin == Redirect("Please log in to make a transfer.", "login")
FieldsRequired == Redirect("Recipient UPI ID and Amount are required.", "dashboard")
NotPositive == Redirect("Amount must be positive.", "dashboard")
InvalidAmount == Redirect("Invalid amount. Please enter a numerical value.", "dashboard")
SelfTransfer == Redirect("You cannot send money to yourself.", "dashboard")
RecipientNotFound == Redirect("Recipient UPI ID not found.", "dashboard")
RecipientWalletNotFound == Redirect("Recipient wallet not found. Please contact support.", "dashboard")
Insufficient == Redirect("Insufficient balance to complete the transaction.", "dashboard")
Sent == Redirect("Successfully sent", "dashboard")
TransferFailed == Redirect("An error occurred during transfer", "dashboard")

\* if amount <= 0
AmountNotPositive(amount) == FLe(amount, Num(0))

\* The self-transfer check left out.
IsSelfTransferMutant(receiver_upi, sender_upi) == FALSE

\* if receiver_upi == sender_user.upi_id
IsSelfTransfer(receiver_upi, sender_upi) == receiver_upi = sender_upi

\* The balance check with its operands exchanged.
InsufficientBalanceMutant(balance, amount) == FLt(amount, balance)

\* if sender_wallet.balance < amount
InsufficientBalance(balance, amount) == FLt(balance, amount)

Rejected(r) == [resp |-> <<r>>, upd |-> <<>>, ins |-> <<>>]

\* transfer() up to the end of its try block's writes: either the response
\* it returns early with, or the writes pending in the ORM session (the two
\* wallets' new balances, computed from the balances read, and the new
\* transaction row).
TransferPlan(us, ws, uid, recvRaw, amtRaw) ==
  LET sender_user == UserGet(us, uid)
      sender_wallet == WalletByUser(ws, sender_user[1].id)
      receiver_upi == Lower(Strip(recvRaw))
      amount_str == Strip(amtRaw)
      parsed == ParseFloat(amount_str)
      amount == parsed[1]
      receiver_user == UserByUpi(us, receiver_upi)
      receiver_wallet == WalletByUser(ws, receiver_user[1].id)
  IN  IF uid = 0 THEN Rejected(NeedLogin)
      ELSE IF sender_user = <<>> THEN Rejected(ServerError)
      ELSE IF receiver_upi = Empty \/ amount_str = Empty THEN Rejected(FieldsRequired)
      ELSE IF parsed = <<>> THEN Rejected(InvalidAmount)
      ELSE IF AmountNotPositive(amount) THEN Rejected(NotPositive)
      ELSE IF IsSelfTransfer(receiver_upi, sender_user[1].upi_id) THEN Rejected(SelfTransfer)
      ELSE IF receiver_user = <<>> THEN Rejected(RecipientNotFound)
      ELSE IF receiver_wallet = <<>> THEN Rejected(RecipientWalletNotFound)
      ELSE IF sender_wallet = <<>> THEN Rejected(ServerError)
      ELSE IF InsufficientBalance(sender_wallet[1].balance, amount) THEN Rejected(Insufficient)
      ELSE [resp |-> <<>>,
            upd |-> << [id |-> sender_wallet[1].id,
                        balance |-> FSub(sender_wallet[1].balance, amount)],
                       [id |-> receiver_wallet[1].id,
                        balance |-> FAdd(receiver_wallet[1].balance, amount)] >>,
            ins |-> << [sender_upi |-> sender_user[1].upi_id,
                        receiver_upi |-> receiver_upi,
                        amount |-> amount] >>]

\* The UPDATEs the flush of the session issues, in order.
RECURSIVE ApplyUpdates(_, _)
ApplyUpdates(ws, upd) ==
  IF upd = <<>> THEN ws
  ELSE ApplyUpdates(UpdateBalance(ws, Head(upd).id, Head(upd).balance), Tail(upd))

\* A failed commit without the rollback: the first UPDATE the flush issued
\* (the debit) stays.
CommitTransferMutant(ws, ts, plan, ok) ==
  IF ok
  THEN [wallets |-> ApplyUpdates(ws, plan.upd),
        txns |-> InsertTxn(ts, plan.ins[1]), resp |-> Sent]
  ELSE [wallets |-> ApplyUpdates(ws, <<plan.upd[1]>>), txns |-> ts,
        resp |-> TransferFailed]

\* db.session.commit() of a transfer, and db.session.rollback() when it
\* raises: all pending writes, or none.
CommitTransfer(ws, ts, plan, ok) ==
  IF ok
  THEN [wallets |-> ApplyUpdates(ws, plan.upd),
        txns |-> InsertTxn(ts, plan.ins[1]), resp |-> Sent]
  ELSE [wallets |-> ws, txns |-> ts, resp |-> TransferFailed]

\* The whole POST /transfer handler, run without interruption.
transfer(us, ws, ts, uid, recvRaw, amtRaw, ok) ==
  LET plan == TransferPlan(us, ws, uid, recvRaw, amtRaw)
  IN  IF plan.resp # <<>>
      THEN [wallets |-> ws, txns |-> ts, resp |-> plan.resp[1]]
      ELSE CommitTransfer(ws, ts, plan, ok)

\* ----------------------------------------------------- requests in flight
NoUser == NewUser(Empty, Empty, Empty, Empty)

NoPlan == [resp |-> <<>>, upd |-> <<>>, ins |-> <<>>]

\* A browser's request in flight: where the handler stands (pc) and its
\* locals. For a registration: user, base, counter, uid. For a transfer:
\* sender (session['user_id']), recv and amt (the form), seen (the wallet
\* rows as the handler read them) and plan (the writes pending).
Idle ==
  [pc |-> "idle", user |-> NoUser, base |-> Empty, counter |-> 0, uid |-> 0,
   sender |-> 0, recv |-> Empty, amt |-> Empty, seen |-> <<>>, plan |-> NoPlan]

\* ------------------------------------------------------------------- Init
Init ==
  /\ users = <<>>
  /\ wallets = <<>>
  /\ txns = <<>>
  /\ sess = [c \in Clients |-> 0]
  /\ resp = NoResponse
  /\ req = [c \in Clients |-> Idle]
  /\ now = 1

\* ------------------------------------------- requests handled one at a time
Register(c, nameRaw, emailRaw, password, ok1, ok2) ==
  LET out == register(users, wallets, sess[c], nameRaw, emailRaw, password, ok1, ok2)
  IN  /\ users' = out.users
      /\ wallets' = out.wallets
      /\ resp' = out.resp
      /\ UNCHANGED <<txns, sess, req, now>>

Login(c, emailRaw, password) ==
  LET out == login(users, sess[c], emailRaw, password)
  IN  /\ sess' = [sess EXCEPT ![c] = out.uid]
      /\ resp' = out.resp
      /\ UNCHANGED <<users, wallets, txns, req, now>>

\* GET /logout: session.clear()
Logout(c) ==
  /\ sess' = [sess EXCEPT ![c] = 0]
  /\ resp' = LoggedOutResponse
  /\ UNCHANGED <<users, wallets, txns, req, now>>

\* Requests are handled one after the other here: by the next INSERT the
\* clock has advanced.
Transfer(c, recvRaw, amtRaw, ok) ==
  LET out == transfer(users, wallets, txns, sess[c], recvRaw, amtRaw, ok)
  IN  /\ Len(txns) < MaxTxns
      /\ wallets' = out.wallets
      /\ txns' = out.txns
      /\ resp' = out.resp
      /\ now' = (IF out.txns # txns THEN now + 1 ELSE now)
      /\ UNCHANGED <<users, sess, req>>

\* Whether a commit succeeds is the database's choice, where the handler
\* reaches one.
Outcomes(reached) == IF reached THEN BOOLEAN ELSE {TRUE}

RegisterReachesCommit(c, n, e, p) ==
  RegisterEarly(users, sess[c], n, e, p) = <<>>

TransferReachesCommit(c, r, a) ==
  TransferPlan(users, wallets, sess[c], r, a).resp = <<>>

Next ==
  \/ \E c \in Browsers, n \in Names, e \in Emails, p \in Passwords :
       \E ok1 \in Outcomes(RegisterReachesCommit(c, n, e, p)) :
         \E ok2 \in Outcomes(ok1 /\ RegisterReachesCommit(c, n, e, p)) :
           Register(c, n, e, p, ok1, ok2)
  \/ \E c \in Browsers, e \in Emails, p \in LoginPasswords : Login(c, e, p)
  \/ \E c \in Browsers : Logout(c)
  \/ \E c \in Browsers, r \in Recipients, a \in AmountStrs :
       \E ok \in Outcomes(TransferReachesCommit(c, r, a)) :
         Transfer(c, r, a, ok)

Spec == Init /\ [][Next]_vars

\* --------------------------------------- registrations whose steps interleave
\* Each browser has at most one POST /register in flight; a step is one
\* database query or one commit of the handler.
RaceEmails == Emails \cup {<<"a", "1", "@", "x">>}

\* Lines 105-124: validation, the email query, the first candidate.
RegBegin(c, nameRaw, emailRaw, password) ==
  LET early == RegisterEarly(users, sess[c], nameRaw, emailRaw, password)
      base == LocalPart(Lower(Strip(emailRaw)))
  IN  /\ req[c].pc = "idle"
      /\ IF early # <<>>
         THEN /\ resp' = early[1]
              /\ UNCHANGED req
         ELSE /\ req' = [req EXCEPT ![c] =
                   [Idle EXCEPT
                      !.pc = "loop",
                      !.user = NewUser(nameRaw, emailRaw, password, UpiCandidate(base, 0)),
                      !.base = base, !.counter = 1]]
              /\ UNCHANGED resp
      /\ UNCHANGED <<users, wallets, txns, sess, now>>

\* Lines 125-127: one evaluation of the while condition, and the loop body
\* when it holds.
RegLoop(c) ==
  /\ req[c].pc = "loop"
  /\ IF UserByUpi(users, req[c].user.upi_id) # <<>>
     THEN req' = [req EXCEPT
            ![c].user.upi_id = UpiCandidate(req[c].base, req[c].counter),
            ![c].counter = req[c].counter + 1]
     ELSE req' = [req EXCEPT ![c].pc = "commit_user"]
  /\ UNCHANGED <<users, wallets, txns, sess, resp, now>>

\* Lines 132-134: the user row is committed, or the commit raises and the
\* request ends with a 500.
RegCommitUser(c, ok) ==
  LET us1 == CommitUser(users, req[c].user, ok)
  IN  /\ req[c].pc = "commit_user"
      /\ users' = us1
      /\ IF us1 = users
         THEN /\ req' = [req EXCEPT ![c] = Idle]
              /\ resp' = ServerError
         ELSE /\ req' = [req EXCEPT ![c].pc = "commit_wallet", ![c].uid = Len(us1)]
              /\ UNCHANGED resp
      /\ UNCHANGED <<wallets, txns, sess, now>>

\* Lines 136-146: the wallet row is committed and the handler answers, or
\* the commit raises and the request ends with a 500.
RegCommitWallet(c, ok) ==
  LET ws1 == CommitWallet(wallets, req[c].uid, ok)
  IN  /\ req[c].pc = "commit_wallet"
      /\ wallets' = ws1
      /\ req' = [req EXCEPT ![c] = Idle]
      /\ resp' = IF ws1 = wallets THEN ServerError ELSE RegisteredResponse
      /\ UNCHANGED <<users, txns, sess, now>>

NextConc ==
  \/ \E c \in Clients, n \in Names, e \in RaceEmails, p \in Passwords :
       RegBegin(c, n, e, p)
  \/ \E c \in Clients : RegLoop(c)
  \/ \E c \in Clients, ok \in BOOLEAN : RegCommitUser(c, ok)
  \/ \E c \in Clients, ok \in BOOLEAN : RegCommitWallet(c, ok)

SpecConc == Init /\ [][NextConc]_vars

\* Inputs of the runs with interleaved transfers and of the history runs: an
\* amount the balance covers, and the recipients that can exist.
HistAmountStrs == {<<" ", "1", "5", "0">>}

HistRecipients == {<<"a">> \o MockUpi, <<"a", "1">> \o MockUpi}

\* ------------------------------------------ transfers whose steps interleave
\* Each browser has at most one POST /transfer in flight. Lines 199-255: the
\* handler reads the session, both accounts and both wallets, checks the
\* preconditions and computes the new balances from the balances it read. It
\* answers at once when a precondition fails.
TrBegin(c, recvRaw, amtRaw) ==
  LET plan == TransferPlan(users, wallets, sess[c], recvRaw, amtRaw)
      inFlight == {d \in Clients : req[d].pc = "commit_transfer"}
  IN  /\ req[c].pc \in {"idle", "done"}
      /\ Len(txns) + Cardinality(inFlight) < MaxTxns
      /\ IF plan.resp # <<>>
         THEN /\ resp' = plan.resp[1]
              /\ req' = [req EXCEPT ![c] = Idle]
         ELSE /\ req' = [req EXCEPT ![c] =
                   [Idle EXCEPT !.pc = "commit_transfer", !.sender = sess[c],
                                !.recv = recvRaw, !.amt = amtRaw,
                                !.seen = wallets, !.plan = plan]]
              /\ UNCHANGED resp
      /\ UNCHANGED <<users, wallets, txns, sess, now>>

\* Lines 256-262: the commit writes the balances computed at the reads and
\* the ledger row, or raises and is rolled back. A request that committed
\* stays on record (pc = "done") until the browser's next one.
TrCommit(c, ok) ==
  LET out == CommitTransfer(wallets, txns, req[c].plan, ok)
  IN  /\ req[c].pc = "commit_transfer"
      /\ wallets' = out.wallets
      /\ txns' = out.txns
      /\ resp' = out.resp
      /\ now' = (IF out.txns # txns THEN now + 1 ELSE now)
      /\ req' = [req EXCEPT ![c] = IF ok THEN [req[c] EXCEPT !.pc = "done"] ELSE Idle]
      /\ UNCHANGED <<users, sess>>

\* Two browsers, two accounts, transfers in two steps.
NextRace ==
  \/ \E c \in Clients, e \in Emails : Register(c, <<"n">>, e, <<"p">>, TRUE, TRUE)
  \/ \E c \in Clients, e \in Emails : Login(c, e, <<"p">>)
  \/ \E c \in Clients : Logout(c)
  \/ \E c \in Clients, r \in HistRecipients, a \in HistAmountStrs : TrBegin(c, r, a)
  \/ \E c \in Clients, ok \in BOOLEAN : TrCommit(c, ok)

SpecRace == Init /\ [][NextRace]_vars

\* ------------------------------------------------- dashboard and history
\* GET /dashboard: the page of the session's account, its wallet and its QR
\* code.
dashboard(us, ws, uid) ==
  LET user == UserGet(us, uid)
  IN  IF uid = 0
        THEN [uid |-> 0, resp |-> Redirect("Please log in to view your dashboard.", "login")]
      ELSE IF user = <<>>
        THEN [uid |-> 0, resp |-> Redirect("User not found. Please log in again.", "login")]
      ELSE IF WalletByUser(ws, user[1].id) = <<>>
        THEN [uid |-> uid,
              resp |-> Redirect("Wallet not found for your account. Please contact support.",
                                "logout")]
      ELSE [uid |-> uid, resp |-> Render("", "dashboard")]

\* The filter of history() with the receiver side left out.
TxnQueryMutant(ts, upi) == SelectSeq(ts, LAMBDA t : t.sender_upi = upi)

\* Transaction.query.filter((sender_upi == upi) | (receiver_upi == upi))
TxnQuery(ts, upi) ==
  SelectSeq(ts, LAMBDA t : t.sender_upi = upi \/ t.receiver_upi = upi)

\* .order_by(Transaction.timestamp.desc()).all(): the rows in an order in
\* which no row is later than one before it; rows of one timestamp come in
\* the order the database chooses.
OrderByTimestampDesc(rows) ==
  LET n == Len(rows)
      perms == {f \in [1..n -> 1..n] : \A i, j \in 1..n : i # j => f[i] # f[j]}
  IN  { [i \in 1..n |-> rows[f[i]]] : f \in
          {g \in perms : \A i, j \in 1..n :
                           i < j => rows[g[i]].timestamp >= rows[g[j]].timestamp} }

\* GET /history: the responses the handler can give.
history(us, ts, uid) ==
  LET user == UserGet(us, uid)
  IN  IF uid = 0
        THEN {[uid |-> 0,
               resp |-> Redirect("Please log in to view your transaction history.", "login")]}
      ELSE IF user = <<>>
        THEN {[uid |-> 0, resp |-> Redirect("User not found. Please log in again.", "login")]}
      ELSE {[uid |-> uid, resp |-> [Render("", "history") EXCEPT !.rows = rows]] :
              rows \in OrderByTimestampDesc(TxnQuery(ts, user[1].upi_id))}

Dashboard(c) ==
  LET out == dashboard(users, wallets, sess[c])
  IN  /\ sess' = [sess EXCEPT ![c] = out.uid]
      /\ resp' = out.resp
      /\ UNCHANGED <<users, wallets, txns, req, now>>

History(c) ==
  \E out \in history(users, txns, sess[c]) :
    /\ sess' = [sess EXCEPT ![c] = out.uid]
    /\ resp' = out.resp
    /\ UNCHANGED <<users, wallets, txns, req, now>>

\* datetime.utcnow() reads the wall clock, which an adjustment can set back
\* (here: to the earliest reading, 0).
ClockSetBack ==
  /\ now > 0
  /\ now' = 0
  /\ UNCHANGED <<users, wallets, txns, sess, resp, req>>

\* Requests handled one at a time, three accounts, the pages included.
NextHist ==
  \/ \E c \in Browsers, e \in RaceEmails : Register(c, <<"n">>, e, <<"p">>, TRUE, TRUE)
  \/ \E c \in Browsers, e \in RaceEmails : Login(c, e, <<"p">>)
  \/ \E c \in Browsers : Logout(c)
  \/ \E c \in Browsers, r \in HistRecipients, a \in HistAmountStrs :
       Transfer(c, r, a, TRUE)
  \/ \E c \in Browsers : Dashboard(c)
  \/ \E c \in Browsers : History(c)
  \/ ClockSetBack

SpecHist == Init /\ [][NextHist]_vars

\* ================================================================== claims
\* What a transfer request of browser c reads before it validates anything.
SenderOf(c) == UserGet(users, sess[c])

SenderWalletOf(c) == WalletByUser(wallets, SenderOf(c)[1].id)

\* The outcome of a transfer request in the current state.
TransferOut(c, r, a, ok) == transfer(users, wallets, txns, sess[c], r, a, ok)

\* A finite float z that is exactly x - y as real numbers.
ExactDifference(z, x, y) ==
  /\ IsFinite(x) /\ IsFinite(y) /\ IsFinite(z)
  /\ z.u = x.u - y.u
  /\ z.t = x.t - y.t

\* ---- C1
C1_Change(c, r, a) ==
  LET su == SenderOf(c)[1]
      ru == UserByUpi(users, Lower(Strip(r)))[1]
      amount == ParseFloat(a)[1]
      sw == WalletByUser(wallets, su.id)[1]
      rw == WalletByUser(wallets, ru.id)[1]
  IN  /\ users' = users
      /\ Len(wallets') = Len(wallets)
      /\ \A i \in 1..Len(wallets) :
           /\ wallets'[i].id = wallets[i].id
           /\ wallets'[i].user_id = wallets[i].user_id
           /\ wallets[i].id = sw.id =>
                ExactDifference(wallets'[i].balance, sw.balance, amount)
           /\ wallets[i].id = rw.id =>
                ExactDifference(rw.balance, wallets'[i].balance, amount)
           /\ wallets[i].id \notin {sw.id, rw.id} => wallets'[i] = wallets[i]
      /\ Len(txns') = Len(txns) + 1
      /\ SubSeq(txns', 1, Len(txns)) = txns
      /\ txns'[Len(txns')].sender_upi = su.upi_id
      /\ txns'[Len(txns')].receiver_upi = Lower(Strip(r))
      /\ txns'[Len(txns')].amount = amount

\* C1: every transfer request that commits lowers the sender's balance by
\* the amount, raises the receiver's balance by the same amount, appends
\* exactly one ledger row (caller's identifier, requested identifier,
\* amount), and changes no other wallet and no earlier ledger row.
C1_CommittedTransferMovesAmount ==
  [][ txns' # txns =>
        \A c \in Browsers, r \in Recipients, a \in AmountStrs :
          Transfer(c, r, a, TRUE) => C1_Change(c, r, a) ]_vars

\* ---- C2
NonNegative(x) == FLe(Num(0), x)

\* C2: in every state reached by registration and transfer requests handled
\* one at a time, every wallet balance is greater than or equal to 0.
C2_BalancesNonNegative ==
  \A i \in 1..Len(wallets) : NonNegative(wallets[i].balance)

\* ---- C3
\* The request leaves every wallet and the ledger as they are and is not
\* answered as sent.
C3_Rejected(out) ==
  /\ out.wallets = wallets
  /\ out.txns = txns
  /\ out.resp # Sent

\* C3: a transfer request whose amount is greater than the sender's current
\* wallet balance is rejected: no balance changes, no ledger row is added.
C3_OverdraftRejected ==
  \A c \in Browsers, r \in Recipients, a \in AmountStrs, ok \in BOOLEAN :
    ( /\ SenderOf(c) # <<>>
      /\ SenderWalletOf(c) # <<>>
      /\ ParseFloat(a) # <<>>
      /\ FLt(SenderWalletOf(c)[1].balance, ParseFloat(a)[1]) )
    => C3_Rejected(TransferOut(c, r, a, ok))

\* A transfer was just rejected for insufficient balance, the sender's
\* balance and the ledger being what they were.
C3_Witness ==
  /\ resp = Insufficient
  /\ SenderOf("c1") # <<>>
  /\ SenderWalletOf("c1") # <<>>
  /\ SenderWalletOf("c1")[1].balance = Num(InitialBalance)
  /\ txns = <<>>

\* ---- C4
\* The amount string denotes no finite number strictly greater than 0.
C4_NotPositiveNumber(a) ==
  \/ ParseFloat(a) = <<>>
  \/ ~IsFinite(ParseFloat(a)[1])
  \/ ~FLt(Num(0), ParseFloat(a)[1])

\* C4: a transfer request whose amount is not a number strictly greater
\* than 0 (zero, negative, non-numeric, nan, inf, -inf, infinity) is
\* rejected with no change to any wallet balance or to the ledger.
C4_BadAmountRejected ==
  [][ \A c \in Browsers, r \in Recipients, a \in AmountStrs, ok \in BOOLEAN :
        (C4_NotPositiveNumber(a) /\ Transfer(c, r, a, ok))
        => (resp' # Sent /\ UNCHANGED <<users, wallets, txns>>) ]_vars

\* ---- C5
\* The number of characters of s after its first '.', 0 without one.
RECURSIVE FractionDigits(_)
FractionDigits(s) ==
  IF s = Empty THEN 0
  ELSE IF Head(s) = "." THEN Len(s) - 1
  ELSE FractionDigits(Tail(s))

\* A float that is a whole multiple of 0.01.
WholeCents(x) == IsFinite(x) /\ x.t = 0 /\ (100 * x.u) % 8 = 0

\* C5: a transfer request whose amount has more than two fractional digits
\* is rejected before any wallet balance or the ledger is changed, so every
\* ledger amount and every wallet balance stays a whole multiple of 0.01.
C5_FractionalAmountRejected ==
  [][ \A c \in Browsers, r \in Recipients, a \in AmountStrs, ok \in BOOLEAN :
        (FractionDigits(Strip(a)) > 2 /\ Transfer(c, r, a, ok))
        => /\ resp' # Sent
           /\ UNCHANGED <<users, wallets, txns>>
           /\ \A i \in 1..Len(wallets') : WholeCents(wallets'[i].balance)
           /\ \A i \in 1..Len(txns') : WholeCents(txns'[i].amount) ]_vars

\* ---- C6
\* C6: a transfer request whose receiver identifier equals the caller's own
\* identifier is rejected, whatever the amount and the caller's balance, and
\* leaves every wallet balance and the ledger unchanged.
C6_SelfTransferRejected ==
  \A c \in Browsers, r \in Recipients, a \in AmountStrs, ok \in BOOLEAN :
    (SenderOf(c) # <<>> /\ r = SenderOf(c)[1].upi_id)
    => /\ TransferOut(c, r, a, ok).wallets = wallets
       /\ TransferOut(c, r, a, ok).txns = txns
       /\ TransferOut(c, r, a, ok).resp \in
            {FieldsRequired, InvalidAmount, NotPositive, SelfTransfer}

\* A transfer to the caller's own identifier was just rejected as such, the
\* caller holding a wallet that could have paid.
C6_Witness ==
  /\ resp = SelfTransfer
  /\ SenderOf("c1") # <<>>
  /\ SenderWalletOf("c1") # <<>>
  /\ Len(users) = 2
  /\ txns = <<>>

\* ---- C7
\* The first of the six preconditions, in the order listed, that the request
\* of browser c violates; "none" when it meets them all.
C7_FirstViolated(c, r, a) ==
  LET rn == Lower(Strip(r))
      an == Strip(a)
      v == ParseFloat(an)
  IN  IF sess[c] = 0 THEN "session"
      ELSE IF rn = Empty \/ an = Empty THEN "present"
      ELSE IF v = <<>> \/ ~FLt(Num(0), v[1]) THEN "amount"
      ELSE IF rn = SenderOf(c)[1].upi_id THEN "self"
      ELSE IF UserByUpi(users, rn) = <<>> THEN "receiver"
      ELSE IF SenderWalletOf(c) # <<>> /\ ~FLe(v[1], SenderWalletOf(c)[1].balance)
        THEN "balance"
      ELSE "none"

\* The rejection of each precondition.
C7_RejectionOf(p) ==
  CASE p = "session" -> {NeedLogin}
    [] p = "present" -> {FieldsRequired}
    [] p = "amount" -> {InvalidAmount, NotPositive}
    [] p = "self" -> {SelfTransfer}
    [] p = "receiver" -> {RecipientNotFound}
    [] p = "balance" -> {Insufficient}

C7_Preconditions == {"session", "present", "amount", "self", "receiver", "balance"}

\* C7: the transfer preconditions are checked in the order session, fields
\* present, amount a valid positive number, receiver not the sender,
\* receiver exists, balance covers the amount; a request is answered with
\* the rejection of the first precondition it violates, the rejections of
\* different preconditions differ, and a rejected request changes nothing.
C7_FirstViolationReported ==
  [][ /\ \A p, q \in C7_Preconditions :
           p # q => C7_RejectionOf(p) \cap C7_RejectionOf(q) = {}
      /\ \A c \in Browsers, r \in Recipients, a \in AmountStrs, ok \in BOOLEAN :
           (Transfer(c, r, a, ok) /\ C7_FirstViolated(c, r, a) # "none")
           => /\ resp' \in C7_RejectionOf(C7_FirstViolated(c, r, a))
              /\ UNCHANGED <<users, wallets, txns>> ]_vars

\* ---- C8
\* C8: when the commit of a transfer fails, the debit, the credit and the
\* new ledger row are rolled back together: the persisted state after the
\* failed request is the persisted state before it.
C8_FailedCommitRollsBack ==
  [][ resp' = TransferFailed => UNCHANGED <<users, wallets, txns>> ]_vars

\* The commit of a transfer between two funded wallets just failed.
C8_Witness ==
  /\ resp = TransferFailed
  /\ Len(wallets) = 2
  /\ \A i \in 1..Len(wallets) : wallets[i].balance = Num(InitialBalance)
  /\ txns = <<>>

\* ---- C9
\* C9: no two accounts have the same payment identifier, also when two
\* registrations with the same email local part interleave.
C9_UpiUnique ==
  \A i, j \in 1..Len(users) : i # j => users[i].upi_id # users[j].upi_id

\* Two registrations with the same local part both passed the collision
\* check with the same candidate; one has committed its user row, the other
\* is about to commit.
C9_Witness ==
  \E c, d \in Clients :
    /\ req[c].pc = "commit_wallet"
    /\ req[d].pc = "commit_user"
    /\ req[d].user.upi_id = users[req[c].uid].upi_id
    /\ req[d].user.email # users[req[c].uid].email

\* ---- C10
\* C10: a wallet is created atomically with its account: in every reachable
\* state, also after a registration that failed between its writes, every
\* account has exactly one wallet.
C10_EveryAccountHasOneWallet ==
  \A i \in 1..Len(users) :
    Cardinality({j \in 1..Len(wallets) : wallets[j].user_id = users[i].id}) = 1

\* C12: a step taken while the browser has no session adds no ledger row and
\* changes no wallet's balance; a login establishes a session only from none,
\* for the account of the email, and only when the password verifies against
\* the stored hash; the session changes by a login or a logout only, and a
\* logout clears it.
C12_LoginVerifies(c) ==
  \A e \in Emails, p \in LoginPasswords :
    LET u == UserByEmail(users, Lower(Strip(e)))
        out == login(users, sess[c], e, p)
    IN  out.uid # sess[c] =>
          /\ sess[c] = 0
          /\ u # <<>>
          /\ CheckPasswordHash(u[1].password, p)
          /\ out.uid = u[1].id

C12_SessionGuardsTransfer ==
  [][ /\ (\A c \in Browsers : sess[c] = 0) =>
          /\ txns' = txns
          /\ \A i \in 1..Len(wallets) : wallets'[i] = wallets[i]
      /\ \A c \in Browsers :
          /\ C12_LoginVerifies(c)
          /\ Logout(c) => sess'[c] = 0
          /\ sess'[c] # sess[c] =>
                \/ Logout(c)
                \/ \E e \in Emails, p \in LoginPasswords : Login(c, e, p) ]_vars

\* After a committed transfer and a logout, a transfer request was refused.
C12_Witness ==
  /\ sess["c1"] = 0
  /\ txns # <<>>
  /\ resp = NeedLogin

\* C13: no request ends in an unhandled error (a 500 response).
C13_NoUnhandledError == resp.status # 500

\* C14: in every state, a login with an unregistered email and a login with a
\* registered email and a wrong password get the same response, and neither
\* changes the session.
C14_FailedLoginsIndistinguishable ==
  \A c \in Browsers, e1 \in Emails, e2 \in Emails, p1 \in LoginPasswords,
     p2 \in LoginPasswords :
    LET u1 == UserByEmail(users, Lower(Strip(e1)))
        u2 == UserByEmail(users, Lower(Strip(e2)))
    IN  (u1 = <<>> /\ u2 # <<>> /\ ~CheckPasswordHash(u2[1].password, p2)) =>
          /\ login(users, sess[c], e1, p1) = login(users, sess[c], e2, p2)
          /\ login(users, sess[c], e1, p1).uid = sess[c]

\* A login failed while one of the two emails is registered and the other
\* is not.
C14_Witness ==
  /\ Len(users) = 1
  /\ sess["c1"] = 0
  /\ resp = InvalidLogin

\* The float sum of the balances of the wallet rows ws, added in row order.
RECURSIVE SumBalances(_)
SumBalances(ws) ==
  IF ws = <<>> THEN Num(0)
  ELSE FAdd(SumBalances(SubSeq(ws, 1, Len(ws) - 1)), ws[Len(ws)].balance)

\* C17: the sum of all wallet balances equals 1000 times the number of
\* wallets.
C17_MoneyConserved == SumBalances(wallets) = Num(InitialBalance * Len(wallets))

\* The exact sum of field f (u: eighths, t: multiples of 1e-300) of the
\* amounts of the ledger rows rs.
RECURSIVE ExactSum(_, _)
ExactSum(rs, f) ==
  IF rs = <<>> THEN 0
  ELSE ExactSum(Tail(rs), f) + (IF f = "u" THEN Head(rs).amount.u ELSE Head(rs).amount.t)

C18_Received(upi) == SelectSeq(txns, LAMBDA t : t.receiver_upi = upi)

C18_Sent(upi) == SelectSeq(txns, LAMBDA t : t.sender_upi = upi)

\* C18: every wallet's balance is a number and equals 1000 plus the amounts
\* of the ledger rows its account received minus the amounts of those it
\* sent.
C18_LedgerExplainsBalances ==
  \A i \in 1..Len(wallets) :
    LET upi == users[wallets[i].user_id].upi_id
    IN  /\ IsFinite(wallets[i].balance)
        /\ \A j \in 1..Len(txns) : IsFinite(txns[j].amount)
        /\ wallets[i].balance.u =
             8 * InitialBalance + ExactSum(C18_Received(upi), "u") - ExactSum(C18_Sent(upi), "u")
        /\ wallets[i].balance.t =
             ExactSum(C18_Received(upi), "t") - ExactSum(C18_Sent(upi), "t")

\* C19: after every step, every ledger row has an amount greater than 0, a
\* sender other than its receiver, and a sender and a receiver that are
\* payment identifiers of accounts; and every row the ledger had before the
\* step is still there, unchanged.
C19_WellFormed(us, t) ==
  /\ FLt(Num(0), t.amount)
  /\ t.sender_upi # t.receiver_upi
  /\ UserByUpi(us, t.sender_upi) # <<>>
  /\ UserByUpi(us, t.receiver_upi) # <<>>

C19_LedgerWellFormed ==
  [][ /\ \A i \in 1..Len(txns') : C19_WellFormed(users', txns'[i])
      /\ Len(txns') >= Len(txns)
      /\ \A i \in 1..Len(txns) : txns'[i] = txns[i] ]_vars

\* Whether no account of us holds the identifier <base><k>@mockupi.
C16_Free(us, base, k) ==
  \A i \in 1..Len(us) : us[i].upi_id # base \o Digits(k) \o MockUpi

\* <base>@mockupi when no account of us holds it, else <base><k>@mockupi
\* for the smallest k >= 1 such that no account holds that.
C16_Expected(us, base) ==
  IF \A i \in 1..Len(us) : us[i].upi_id # base \o MockUpi
  THEN base \o MockUpi
  ELSE LET k == CHOOSE k \in 1..(Len(us) + 1) :
                  /\ C16_Free(us, base, k)
                  /\ \A j \in 1..(k - 1) : ~C16_Free(us, base, j)
       IN  base \o Digits(k) \o MockUpi

\* C16: the account a registration commits has the identifier
\* <local part>@mockupi when no account held it, else <local part><k>@mockupi
\* for the smallest k >= 1 that no account held; and the collision loop's
\* counter never exceeds the number of accounts plus one.
C16_SmallestFreeIdentifier ==
  [][ \A c \in Clients :
        /\ (req[c].pc = "commit_user" /\ req'[c].pc = "commit_wallet") =>
              /\ Len(users') = Len(users) + 1
              /\ users'[Len(users')].upi_id =
                   C16_Expected(users, LocalPart(users'[Len(users')].email))
        /\ req'[c].pc = "loop" => req'[c].counter <= Len(users') + 1 ]_vars

\* An account was given the counter 2: <local part>@mockupi and
\* <local part>1@mockupi were both held.
C16_Witness ==
  \E i \in 1..Len(users) :
    /\ users[i].upi_id = <<"a", "2">> \o MockUpi
    /\ \E j \in 1..Len(users) : users[j].upi_id = <<"a", "1">> \o MockUpi
    /\ \E j \in 1..Len(users) : users[j].upi_id = <<"a">> \o MockUpi

\* C11: a history page lists exactly the ledger rows whose sender or receiver
\* is the identifier of the session's account, each once, no row earlier
\* than one listed after it; and the request changes neither the database
\* nor the session.
C11_Mine(c) ==
  {j \in 1..Len(txns) :
     \/ txns[j].sender_upi = users[sess[c]].upi_id
     \/ txns[j].receiver_upi = users[sess[c]].upi_id}

C11_HistoryListsOwnRows ==
  [][ \A c \in Browsers :
        (History(c) /\ resp'.to = "history") =>
          /\ {resp'.rows[i] : i \in 1..Len(resp'.rows)} = {txns[j] : j \in C11_Mine(c)}
          /\ Len(resp'.rows) = Cardinality(C11_Mine(c))
          /\ \A i \in 1..(Len(resp'.rows) - 1) :
                resp'.rows[i].timestamp >= resp'.rows[i + 1].timestamp
          /\ UNCHANGED <<users, wallets, txns, sess>> ]_vars

\* A history page of two rows, one the account sent and one it received,
\* the later one first although it was inserted first.
C11_Witness ==
  /\ resp.to = "history"
  /\ Len(resp.rows) = 2
  /\ resp.rows[1].timestamp > resp.rows[2].timestamp
  /\ resp.rows[1].id < resp.rows[2].id
  /\ resp.rows[1].sender_upi = resp.rows[2].receiver_upi
  /\ resp.rows[1].receiver_upi # resp.rows[2].sender_upi

\* The wallets after the transfer of browser c and then that of browser d
\* ran one after the other, from the wallets both read.
C15_Serial(c, d) ==
  LET w1 == transfer(users, req[c].seen, <<>>, req[c].sender, req[c].recv,
                     req[c].amt, TRUE).wallets
  IN  transfer(users, w1, <<>>, req[d].sender, req[d].recv, req[d].amt, TRUE).wallets

\* Transfer d commits second: c committed after both had read the same
\* wallets, and the two write a common wallet.
C15_SecondCommit(c, d) ==
  /\ c # d
  /\ req[c].pc = "done"
  /\ req[d].pc = "commit_transfer"
  /\ req'[d].pc = "done"
  /\ req[c].seen = req[d].seen
  /\ wallets = ApplyUpdates(req[c].seen, req[c].plan.upd)
  /\ \E i \in 1..2, j \in 1..2 : req[c].plan.upd[i].id = req[d].plan.upd[j].id

\* C15: when the second of two interleaved transfers that touch a common
\* wallet commits, the wallets are those of running the two one after the
\* other in one of the two orders, and no balance is negative.
C15_InterleavedTransfersSerial ==
  [][ \A c \in Clients, d \in Clients :
        C15_SecondCommit(c, d) =>
          /\ wallets' \in {C15_Serial(c, d), C15_Serial(d, c)}
          /\ \A i \in 1..Len(wallets') : NonNegative(wallets'[i].balance) ]_vars

====
